---- MODULE Spec2Model ----
(***************************************************************************)
(* Model of the food-rating REST backend (src/src/server.ts, the final     *)
(* iteration of the file, lines 578-1266).                                 *)
(*                                                                         *)
(* State: the three SQLite tables restaurants / food_items / reviews with  *)
(* their AUTOINCREMENT sequences, the upload directory, and the requests   *)
(* in flight.  A request handler is an async function: between two         *)
(* `await db.*` calls its JavaScript runs without interruption, so every   *)
(* action below is "one database statement executes and the handler runs   *)
(* on to the submission of its next statement (or to its response)".       *)
(* Requests of different slots interleave at these points.  Before its     *)
(* first statement a handler has read nothing and written only its own,    *)
(* freshly named upload, so the arrival of a request (authenticateJWT,     *)
(* multer, the checks on the body) is one action with its first statement. *)
(***************************************************************************)
EXTENDS Integers, FiniteSets, Sequences, TLC

\* ------------------------------------------------------------------ bounds
MaxId == 2
MaxFiles == 2
MaxRequests == 4
MaxUsers == 2
Proc == {"p1", "p2"}

\* ------------------------------------------------------- JavaScript values
\* A value of a request body or of a table column.  t is the type tag:
\*   "undefined"  field absent from the body
\*   "null"       SQL NULL / JS null
\*   "number"     a JSON number n
\*   "numstr"     a non-empty string that reads as the number n ("3")
\*   "text"       a non-empty string that is not a number (text number n)
\*   "empty"      the empty string ""
\*   "path"       the string '/uploads/<filename n>'
Undef == [t |-> "undefined", n |-> 0]
Null == [t |-> "null", n |-> 0]
EmptyStr == [t |-> "empty", n |-> 0]
Num(k) == [t |-> "number", n |-> k]
Str(k) == [t |-> "numstr", n |-> k]
Text(k) == [t |-> "text", n |-> k]

\* A test for presence that takes "" and 0 for present.
TruthyDefined(v) == v.t \notin {"undefined", "null"}

\* JS truthiness: undefined, null, "" and 0 are falsy.
Truthy(v) ==
    /\ v.t \notin {"undefined", "null", "empty"}
    /\ ~(v.t = "number" /\ v.n = 0)

\* A merge that takes every value the body carries: a !== undefined ? a : b.
OrDefined(a, b) == IF a # Undef THEN a ELSE b

\* a || b
Or(a, b) == IF Truthy(a) THEN a ELSE b

\* ToNumber for the relational operators: strings are parsed, "" is 0,
\* undefined and non-numeric text are NaN (every comparison false).
IsNaN(v) == v.t \in {"undefined", "text", "path"}
ToNumber(v) == IF v.t \in {"number", "numstr"} THEN v.n ELSE 0
Lt(v, k) == ~IsNaN(v) /\ ToNumber(v) < k
Gt(v, k) == ~IsNaN(v) /\ ToNumber(v) > k

\* a !== b : different type or different value.
StrictNeq(a, b) == a # b

\* ------------------------------------------------------------- the files
NoFile == 0

\* multer's diskStorage: destination uploadDir, filename
\* fieldname-<Date.now()>-<random><ext>; a stored file is identified by
\* its filename inside uploadDir.
FilePath(filename) == filename

\* `/uploads/${req.file.filename}` : the image_path stored on a record.
ImagePath(filename) == [t |-> "path", n |-> filename]

\* path.join(__dirname, '..', image_path) : the file an image_path names.
JoinImagePath(v) == v.n

\* ------------------------------------------------------------ the store
\* sqlite3 binds undefined as NULL; a column of INTEGER / REAL affinity
\* turns a numeric string into the number and keeps any other text.
NumericAffinity(v) ==
    CASE v.t = "undefined" -> Null
      [] v.t = "numstr" -> Num(v.n)
      [] OTHER -> v

\* a column of TEXT affinity turns a number into its text.
TextAffinity(v) ==
    CASE v.t = "undefined" -> Null
      [] v.t = "number" -> Str(v.n)
      [] OTHER -> v

\* WHERE id = ? : the rowid the bound parameter selects (0: none).
RowId(v) == IF NumericAffinity(v).t = "number" THEN NumericAffinity(v).n ELSE 0

NoRow == [t |-> "norow"]

\* reviews declared without the CHECK on rating.
RatingCheckOff(v) == TRUE

\* CHECK(rating >= 1 AND rating <= 5): text sorts after every number, so
\* only a number in range passes (NULL is stopped by NOT NULL).
RatingCheck(v) == v.t = "number" /\ v.n >= 1 /\ v.n <= 5

NotNull(v) == v.t # "null"


\* ---------------------------------------------------------------- state
VARIABLES
    restaurants,  \* table restaurants: id -> [name, location]
    foodItems,    \* table food_items: id -> [name, description, price, restaurant_id, image_path]
    reviews,      \* table reviews: id -> [food_item_id, rating, comment, image_path]
    seqR,         \* sqlite_sequence of restaurants (largest id ever given)
    seqF,         \* sqlite_sequence of food_items
    seqV,         \* sqlite_sequence of reviews
    files,        \* filenames present in uploadDir
    nextFile,     \* number of files multer has stored so far
    req,          \* per slot: the request in flight and where its handler is
    resp,         \* the response sent last
    started,      \* number of requests received so far
    users,        \* table users: id -> [username, password]
    seqU          \* sqlite_sequence of users

vars == <<restaurants, foodItems, reviews, seqR, seqF, seqV, files, nextFile, req, resp, started, users, seqU>>
tables == <<restaurants, foodItems, reviews, seqR, seqF, seqV>>

NoBody ==
    [name |-> Undef, location |-> Undef, description |-> Undef, price |-> Undef,
     restaurant_id |-> Undef, food_item_id |-> Undef, rating |-> Undef, comment |-> Undef,
     username |-> Undef, password |-> Undef]

\* auth: what the Authorization header of the request is ("none": absent,
\* "bad": a token jwt.verify refuses, "ok": a token it accepts).
Idle ==
    [op |-> "none", pc |-> "idle", auth |-> "ok", id |-> Undef, body |-> NoBody,
     file |-> NoFile, params |-> NoRow]

\* The JSON document of a response that the model does not look into.
OtherJson == [t |-> "other"]

NoResp ==
    [op |-> "none", status |-> 0, auth |-> "ok", id |-> Undef, body |-> NoBody,
     file |-> NoFile, json |-> OtherJson]

\* initDb on a fresh database file, an empty upload directory, no request.
Init ==
    /\ restaurants = <<>>
    /\ foodItems = <<>>
    /\ reviews = <<>>
    /\ seqR = 0
    /\ seqF = 0
    /\ seqV = 0
    /\ files = {}
    /\ nextFile = 0
    /\ req = [p \in Proc |-> Idle]
    /\ resp = NoResp
    /\ started = 0
    /\ users = <<>>
    /\ seqU = 0

\* -------------------------------------------------------- SQL statements
\* A SELECT without its WHERE clause: any row of the table.
DbGetAny(table, v) ==
    IF DOMAIN table = {} THEN NoRow ELSE table[CHOOSE x \in DOMAIN table : TRUE]

\* SELECT * FROM <table> WHERE id = ?
DbGet(table, v) == IF RowId(v) \in DOMAIN table THEN table[RowId(v)] ELSE NoRow

Restrict(f, S) == [x \in S |-> f[x]]

\* food_items declared without ON DELETE CASCADE.
FoodItemsOfNoCascade(fs, rs) == DOMAIN fs

\* ON DELETE CASCADE of food_items.restaurant_id and reviews.food_item_id:
\* the rows whose parent is still there.
FoodItemsOf(fs, rs) == {f \in DOMAIN fs : fs[f].restaurant_id.n \in rs}
ReviewsOf(vs, fs) == {v \in DOMAIN vs : vs[v].food_item_id.n \in fs}

\* PRAGMA foreign_keys left off.
ForeignKeyOff(v, parent) == TRUE

\* FOREIGN KEY (...) REFERENCES parent(id), foreign_keys = ON.
ForeignKey(v, parent) == v.t = "number" /\ v.n \in DOMAIN parent

\* An id column declared INTEGER PRIMARY KEY only: the largest rowid left in
\* the table plus one.
RowidPlusOne(seq, table) ==
    IF DOMAIN table = {} THEN 1
    ELSE (CHOOSE m \in DOMAIN table : \A x \in DOMAIN table : x <= m) + 1

\* id INTEGER PRIMARY KEY AUTOINCREMENT: result.lastID of an INSERT is one
\* more than the largest id the table has ever given.
AutoIncrement(seq, table) == seq + 1

\* ------------------------------------------------- uploads (multer, fs)
\* upload.single('image'): the file of a multipart request is written to
\* uploadDir under a new filename before the route handler is called.
StoredName(hasFile) == IF hasFile THEN nextFile + 1 ELSE NoFile
Upload(fs, file) == IF file = NoFile THEN fs ELSE fs \cup {FilePath(file)}

\* A rejection that clears the upload directory.
UnlinkUploadAll(fs, file) == IF file = NoFile THEN fs ELSE {}

\* A rejection that forgets the uploaded file.
UnlinkUploadSkipped(fs, file) == fs

\* if (req.file) { fs.unlinkSync(req.file.path); }
UnlinkUpload(fs, file) == IF file = NoFile THEN fs ELSE fs \ {FilePath(file)}

\* if (row.image_path) { if (fs.existsSync(p)) fs.unlinkSync(p); }
UnlinkImage(fs, image_path) ==
    IF Truthy(image_path) /\ JoinImagePath(image_path) \in fs
    THEN fs \ {JoinImagePath(image_path)}
    ELSE fs

\* const imagePath = req.file ? `/uploads/${req.file.filename}` : null
ImagePathOf(file) == IF file = NoFile THEN Null ELSE ImagePath(file)

\* ---------------------------------------------------------- the requests
\* res.status(s).json(...): the response leaves and the slot is free again.
AnswerJson(p, r, s, json) ==
    /\ resp' = [op |-> r.op, status |-> s, auth |-> r.auth, id |-> r.id, body |-> r.body,
                file |-> r.file, json |-> json]
    /\ req' = [req EXCEPT ![p] = Idle]

Answer(p, r, s) == AnswerJson(p, r, s, OtherJson)

\* The request as the handler holds it.
Request(auth, op, id, body, file) ==
    [Idle EXCEPT !.auth = auth, !.op = op, !.id = id, !.body = body, !.file = file]

\* The handler awaits its next statement.
Await(p, r) ==
    /\ req' = [req EXCEPT ![p] = r]
    /\ UNCHANGED resp

\* A gate that lets every request with an Authorization header through.
AuthenticateJWTUnverified(auth) == IF auth = "none" THEN 401 ELSE 0

\* authenticateJWT: no Authorization header 401, jwt.verify fails 403,
\* otherwise next() (0).
AuthenticateJWT(auth) ==
    CASE auth = "none" -> 401
      [] auth = "bad" -> 403
      [] OTHER -> 0

Pending(op) == Cardinality({q \in Proc : req[q].op = op})

\* A request arrives on a free slot.  hasFile: it carries an image.
Receive(p, hasFile) ==
    /\ req[p].pc = "idle"
    /\ started < MaxRequests
    /\ hasFile => nextFile < MaxFiles
    /\ started' = started + 1
    /\ UNCHANGED <<users, seqU>>

\* The 401 / 403 answer of authenticateJWT: neither multer nor the route
\* handler runs.
Rejected(p, r, auth) ==
    /\ Answer(p, r, AuthenticateJWT(auth))
    /\ UNCHANGED <<tables, files, nextFile>>

\* ---- POST /restaurants
\* A handler that inserts first and validates the name afterwards.
CreateRestaurantValidatesLate(p, auth, body) ==
    /\ Receive(p, FALSE)
    /\ seqR < MaxId
    /\ UNCHANGED <<foodItems, reviews, seqF, seqV, files, nextFile>>
    /\ restaurants' = (seqR + 1 :> [name |-> TextAffinity(body.name),
                                    location |-> TextAffinity(body.location)]) @@ restaurants
    /\ seqR' = seqR + 1
    /\ Answer(p, Request(auth, "createRestaurant", Undef, body, NoFile),
              IF Truthy(body.name) THEN 201 ELSE 400)

\* INSERT INTO restaurants (name, location) VALUES (?, ?)
CreateRestaurant(p, auth, body) ==
    /\ Receive(p, FALSE)
    /\ seqR < MaxId
    /\ UNCHANGED <<foodItems, reviews, seqF, seqV, files, nextFile>>
    /\ IF AuthenticateJWT(auth) # 0
       THEN Rejected(p, Request(auth, "createRestaurant", Undef, body, NoFile), auth)
       ELSE IF ~Truthy(body.name)
            THEN /\ Answer(p, Request(auth, "createRestaurant", Undef, body, NoFile), 400)
                 /\ UNCHANGED <<restaurants, seqR>>
            ELSE LET row == [name |-> TextAffinity(body.name),
                             location |-> TextAffinity(body.location)]
                 IN  IF NotNull(row.name)
                     THEN /\ restaurants' = (AutoIncrement(seqR, restaurants) :> row) @@ restaurants
                          /\ seqR' = AutoIncrement(seqR, restaurants)
                          /\ AnswerJson(p, Request(auth, "createRestaurant", Undef, body, NoFile), 201,
                                        [id |-> AutoIncrement(seqR, restaurants),
                                         name |-> body.name, location |-> body.location])
                     ELSE /\ UNCHANGED <<restaurants, seqR>>
                          /\ Answer(p, Request(auth, "createRestaurant", Undef, body, NoFile), 500)

\* ---- PUT /restaurants/:id
\* SELECT * FROM restaurants WHERE id = ?, then the merge of the body.
UpdateRestaurantGet(p, auth, id, body) ==
    /\ Receive(p, FALSE)
    /\ UNCHANGED <<tables, files, nextFile>>
    /\ IF AuthenticateJWT(auth) # 0
       THEN Rejected(p, Request(auth, "updateRestaurant", id, body, NoFile), auth)
       ELSE LET restaurant == DbGet(restaurants, id)
            IN  IF restaurant = NoRow
                THEN Answer(p, Request(auth, "updateRestaurant", id, body, NoFile), 404)
                ELSE Await(p, [Request(auth, "updateRestaurant", id, body, NoFile) EXCEPT
                                  !.pc = "update",
                                  !.params = [name |-> Or(body.name, restaurant.name),
                                              location |-> Or(body.location, restaurant.location)]])

\* UPDATE restaurants SET name = ?, location = ? ... WHERE id = ?
UpdateRestaurantRun(p) ==
    /\ req[p].op = "updateRestaurant" /\ req[p].pc = "update"
    /\ LET id == RowId(req[p].id)
           row == [name |-> TextAffinity(req[p].params.name),
                   location |-> TextAffinity(req[p].params.location)]
       IN  IF id \notin DOMAIN restaurants
           THEN /\ UNCHANGED restaurants
                /\ Answer(p, req[p], 200)
           ELSE IF NotNull(row.name)
                THEN /\ restaurants' = [restaurants EXCEPT ![id] = row]
                     /\ Answer(p, req[p], 200)
                ELSE /\ UNCHANGED restaurants
                     /\ Answer(p, req[p], 500)
    /\ UNCHANGED <<foodItems, reviews, seqR, seqF, seqV, files, nextFile, started, users, seqU>>

\* ---- DELETE /restaurants/:id
DeleteRestaurantGet(p, auth, id) ==
    /\ Receive(p, FALSE)
    /\ UNCHANGED <<tables, files, nextFile>>
    /\ IF AuthenticateJWT(auth) # 0
       THEN Rejected(p, Request(auth, "deleteRestaurant", id, NoBody, NoFile), auth)
       ELSE IF DbGet(restaurants, id) = NoRow
            THEN Answer(p, Request(auth, "deleteRestaurant", id, NoBody, NoFile), 404)
            ELSE Await(p, [Request(auth, "deleteRestaurant", id, NoBody, NoFile) EXCEPT !.pc = "delete"])

\* DELETE FROM restaurants WHERE id = ? (cascades to food_items, then reviews)
DeleteRestaurantRun(p) ==
    /\ req[p].op = "deleteRestaurant" /\ req[p].pc = "delete"
    /\ LET keptR == DOMAIN restaurants \ {RowId(req[p].id)}
           keptF == FoodItemsOf(foodItems, keptR)
           keptV == ReviewsOf(reviews, keptF)
       IN  /\ restaurants' = Restrict(restaurants, keptR)
           /\ foodItems' = Restrict(foodItems, keptF)
           /\ reviews' = Restrict(reviews, keptV)
    /\ Answer(p, req[p], 200)
    /\ UNCHANGED <<seqR, seqF, seqV, files, nextFile, started, users, seqU>>

\* ---- POST /food-items
\* the checks on the body, then SELECT * FROM restaurants WHERE id = ?
CreateFoodItemCheck(p, auth, body, hasFile) ==
    /\ Receive(p, hasFile)
    /\ seqF + Pending("createFoodItem") < MaxId
    /\ UNCHANGED tables
    /\ IF AuthenticateJWT(auth) # 0
       THEN Rejected(p, Request(auth, "createFoodItem", Undef, body, NoFile), auth)
       ELSE LET file == StoredName(hasFile)
                stored == Upload(files, file)
            IN  /\ nextFile' = IF hasFile THEN nextFile + 1 ELSE nextFile
                /\ IF ~Truthy(body.name) \/ ~Truthy(body.restaurant_id)
                   THEN /\ files' = UnlinkUpload(stored, file)
                        /\ Answer(p, Request(auth, "createFoodItem", Undef, body, file), 400)
                   ELSE IF DbGet(restaurants, body.restaurant_id) = NoRow
                        THEN /\ files' = UnlinkUpload(stored, file)
                             /\ Answer(p, Request(auth, "createFoodItem", Undef, body, file), 404)
                        ELSE /\ files' = stored
                             /\ Await(p, [Request(auth, "createFoodItem", Undef, body, file) EXCEPT !.pc = "insert"])

\* INSERT INTO food_items (name, description, price, restaurant_id, image_path)
CreateFoodItemInsert(p) ==
    /\ req[p].op = "createFoodItem" /\ req[p].pc = "insert"
    /\ LET row == [name |-> TextAffinity(req[p].body.name),
                   description |-> TextAffinity(req[p].body.description),
                   price |-> NumericAffinity(req[p].body.price),
                   restaurant_id |-> NumericAffinity(req[p].body.restaurant_id),
                   image_path |-> ImagePathOf(req[p].file)]
       IN  IF NotNull(row.name) /\ NotNull(row.restaurant_id)
              /\ ForeignKey(row.restaurant_id, restaurants)
           THEN /\ foodItems' = (AutoIncrement(seqF, foodItems) :> row) @@ foodItems
                /\ seqF' = AutoIncrement(seqF, foodItems)
                /\ Answer(p, req[p], 201)
           ELSE /\ UNCHANGED <<foodItems, seqF>>
                /\ Answer(p, req[p], 500)
    /\ UNCHANGED <<restaurants, reviews, seqR, seqV, files, nextFile, started, users, seqU>>

\* ---- PUT /food-items/:id
\* The merge of the supplied fields with the row read, the removal of the
\* old image and the submission of the UPDATE.
MergeFoodItem(p, r, fs, foodItem) ==
    /\ files' = IF r.file # NoFile THEN UnlinkImage(fs, foodItem.image_path) ELSE fs
    /\ Await(p, [r EXCEPT !.pc = "update",
                    !.params =
                       [name |-> Or(r.body.name, foodItem.name),
                        description |-> Or(r.body.description, foodItem.description),
                        price |-> IF r.body.price # Undef THEN r.body.price ELSE foodItem.price,
                        restaurant_id |-> Or(r.body.restaurant_id, foodItem.restaurant_id),
                        image_path |-> IF r.file # NoFile THEN ImagePath(r.file)
                                       ELSE foodItem.image_path]])

\* SELECT * FROM food_items WHERE id = ?
UpdateFoodItemGet(p, auth, id, body, hasFile) ==
    /\ Receive(p, hasFile)
    /\ UNCHANGED tables
    /\ IF AuthenticateJWT(auth) # 0
       THEN Rejected(p, Request(auth, "updateFoodItem", id, body, NoFile), auth)
       ELSE LET file == StoredName(hasFile)
                stored == Upload(files, file)
                foodItem == DbGet(foodItems, id)
                r == Request(auth, "updateFoodItem", id, body, file)
            IN  /\ nextFile' = IF hasFile THEN nextFile + 1 ELSE nextFile
                /\ IF foodItem = NoRow
                   THEN /\ files' = UnlinkUpload(stored, file)
                        /\ Answer(p, Request(auth, "updateFoodItem", id, body, file), 404)
                   ELSE IF Truthy(body.restaurant_id)
                           /\ StrictNeq(body.restaurant_id, foodItem.restaurant_id)
                        THEN /\ files' = stored
                             /\ Await(p, [r EXCEPT !.pc = "check", !.params = foodItem])
                        ELSE MergeFoodItem(p, r, stored, foodItem)

\* SELECT * FROM restaurants WHERE id = ? [restaurant_id]
UpdateFoodItemCheck(p) ==
    /\ req[p].op = "updateFoodItem" /\ req[p].pc = "check"
    /\ IF DbGet(restaurants, req[p].body.restaurant_id) = NoRow
       THEN /\ files' = UnlinkUpload(files, req[p].file)
            /\ Answer(p, req[p], 404)
       ELSE MergeFoodItem(p, req[p], files, req[p].params)
    /\ UNCHANGED <<tables, nextFile, started, users, seqU>>

\* UPDATE food_items SET name = ?, ..., image_path = ? WHERE id = ?
UpdateFoodItemRun(p) ==
    /\ req[p].op = "updateFoodItem" /\ req[p].pc = "update"
    /\ LET id == RowId(req[p].id)
           row == [name |-> TextAffinity(req[p].params.name),
                   description |-> TextAffinity(req[p].params.description),
                   price |-> NumericAffinity(req[p].params.price),
                   restaurant_id |-> NumericAffinity(req[p].params.restaurant_id),
                   image_path |-> req[p].params.image_path]
       IN  IF id \notin DOMAIN foodItems
           THEN /\ UNCHANGED foodItems
                /\ Answer(p, req[p], 200)
           ELSE IF NotNull(row.name) /\ NotNull(row.restaurant_id)
                   /\ ForeignKey(row.restaurant_id, restaurants)
                THEN /\ foodItems' = [foodItems EXCEPT ![id] = row]
                     /\ Answer(p, req[p], 200)
                ELSE /\ UNCHANGED foodItems
                     /\ Answer(p, req[p], 500)
    /\ UNCHANGED <<restaurants, reviews, seqR, seqF, seqV, files, nextFile, started, users, seqU>>

\* ---- DELETE /food-items/:id
\* SELECT * FROM food_items WHERE id = ?, then the removal of its image.
\* unlinkThrows: fs.unlinkSync of the image throws (EPERM, EBUSY, ...); the
\* exception leaves the handler and the error middleware answers 500.
DeleteFoodItemGet(p, auth, id, unlinkThrows) ==
    /\ Receive(p, FALSE)
    /\ UNCHANGED <<tables, nextFile>>
    /\ unlinkThrows =>
           /\ AuthenticateJWT(auth) = 0
           /\ DbGet(foodItems, id) # NoRow
           /\ UnlinkImage(files, DbGet(foodItems, id).image_path) # files
    /\ IF AuthenticateJWT(auth) # 0
       THEN /\ Answer(p, Request(auth, "deleteFoodItem", id, NoBody, NoFile), AuthenticateJWT(auth))
            /\ UNCHANGED files
       ELSE LET foodItem == DbGet(foodItems, id)
            IN  IF foodItem = NoRow
                THEN /\ UNCHANGED files
                     /\ Answer(p, Request(auth, "deleteFoodItem", id, NoBody, NoFile), 404)
                ELSE IF unlinkThrows
                     THEN /\ UNCHANGED files
                          /\ Answer(p, Request(auth, "deleteFoodItem", id, NoBody, NoFile), 500)
                     ELSE /\ files' = UnlinkImage(files, foodItem.image_path)
                          /\ Await(p, [Request(auth, "deleteFoodItem", id, NoBody, NoFile) EXCEPT !.pc = "delete"])

\* DELETE FROM food_items WHERE id = ? (cascades to reviews)
DeleteFoodItemRun(p) ==
    /\ req[p].op = "deleteFoodItem" /\ req[p].pc = "delete"
    /\ LET keptF == DOMAIN foodItems \ {RowId(req[p].id)}
       IN  /\ foodItems' = Restrict(foodItems, keptF)
           /\ reviews' = Restrict(reviews, ReviewsOf(reviews, keptF))
    /\ Answer(p, req[p], 200)
    /\ UNCHANGED <<restaurants, seqR, seqF, seqV, files, nextFile, started, users, seqU>>


\* ---- POST /reviews
\* A range check that tests the upper end only.
OutOfRangeAboveOnly(rating) == Gt(rating, 5)

\* rating < 1 || rating > 5
OutOfRange(rating) == Lt(rating, 1) \/ Gt(rating, 5)

\* the checks on the body, then SELECT * FROM food_items WHERE id = ?
CreateReviewCheck(p, auth, body, hasFile) ==
    /\ Receive(p, hasFile)
    /\ seqV + Pending("createReview") < MaxId
    /\ UNCHANGED tables
    /\ IF AuthenticateJWT(auth) # 0
       THEN Rejected(p, Request(auth, "createReview", Undef, body, NoFile), auth)
       ELSE LET file == StoredName(hasFile)
                stored == Upload(files, file)
            IN  /\ nextFile' = IF hasFile THEN nextFile + 1 ELSE nextFile
                /\ IF ~Truthy(body.food_item_id) \/ ~Truthy(body.rating)
                   THEN /\ files' = UnlinkUpload(stored, file)
                        /\ Answer(p, Request(auth, "createReview", Undef, body, file), 400)
                   ELSE IF OutOfRange(body.rating)
                        THEN /\ files' = UnlinkUpload(stored, file)
                             /\ Answer(p, Request(auth, "createReview", Undef, body, file), 400)
                        ELSE IF DbGet(foodItems, body.food_item_id) = NoRow
                             THEN /\ files' = UnlinkUpload(stored, file)
                                  /\ Answer(p, Request(auth, "createReview", Undef, body, file), 404)
                             ELSE /\ files' = stored
                                  /\ Await(p, [Request(auth, "createReview", Undef, body, file) EXCEPT !.pc = "insert"])

\* INSERT INTO reviews (food_item_id, rating, comment, image_path)
CreateReviewInsert(p) ==
    /\ req[p].op = "createReview" /\ req[p].pc = "insert"
    /\ LET row == [food_item_id |-> NumericAffinity(req[p].body.food_item_id),
                   rating |-> NumericAffinity(req[p].body.rating),
                   comment |-> TextAffinity(req[p].body.comment),
                   image_path |-> ImagePathOf(req[p].file)]
       IN  IF NotNull(row.food_item_id) /\ NotNull(row.rating) /\ RatingCheck(row.rating)
              /\ ForeignKey(row.food_item_id, foodItems)
           THEN /\ reviews' = (AutoIncrement(seqV, reviews) :> row) @@ reviews
                /\ seqV' = AutoIncrement(seqV, reviews)
                /\ Answer(p, req[p], 201)
           ELSE /\ UNCHANGED <<reviews, seqV>>
                /\ Answer(p, req[p], 500)
    /\ UNCHANGED <<restaurants, foodItems, seqR, seqF, files, nextFile, started, users, seqU>>

\* ---- PUT /reviews/:id
MergeReview(p, r, fs, review) ==
    /\ files' = IF r.file # NoFile THEN UnlinkImage(fs, review.image_path) ELSE fs
    /\ Await(p, [r EXCEPT !.pc = "update",
                    !.params =
                       [food_item_id |-> Or(r.body.food_item_id, review.food_item_id),
                        rating |-> IF r.body.rating # Undef THEN r.body.rating ELSE review.rating,
                        comment |-> Or(r.body.comment, review.comment),
                        image_path |-> IF r.file # NoFile THEN ImagePath(r.file)
                                       ELSE review.image_path]])

\* SELECT * FROM reviews WHERE id = ?, then the range check
UpdateReviewGet(p, auth, id, body, hasFile) ==
    /\ Receive(p, hasFile)
    /\ UNCHANGED tables
    /\ IF AuthenticateJWT(auth) # 0
       THEN Rejected(p, Request(auth, "updateReview", id, body, NoFile), auth)
       ELSE LET file == StoredName(hasFile)
                stored == Upload(files, file)
                review == DbGet(reviews, id)
                r == Request(auth, "updateReview", id, body, file)
            IN  /\ nextFile' = IF hasFile THEN nextFile + 1 ELSE nextFile
                /\ IF review = NoRow
                   THEN /\ files' = UnlinkUpload(stored, file)
                        /\ Answer(p, Request(auth, "updateReview", id, body, file), 404)
                   ELSE IF Truthy(body.rating) /\ OutOfRange(body.rating)
                        THEN /\ files' = UnlinkUpload(stored, file)
                             /\ Answer(p, Request(auth, "updateReview", id, body, file), 400)
                        ELSE IF Truthy(body.food_item_id)
                                /\ StrictNeq(body.food_item_id, review.food_item_id)
                             THEN /\ files' = stored
                                  /\ Await(p, [r EXCEPT !.pc = "check", !.params = review])
                             ELSE MergeReview(p, r, stored, review)

\* SELECT * FROM food_items WHERE id = ? [food_item_id]
UpdateReviewCheck(p) ==
    /\ req[p].op = "updateReview" /\ req[p].pc = "check"
    /\ IF DbGet(foodItems, req[p].body.food_item_id) = NoRow
       THEN /\ files' = UnlinkUpload(files, req[p].file)
            /\ Answer(p, req[p], 404)
       ELSE MergeReview(p, req[p], files, req[p].params)
    /\ UNCHANGED <<tables, nextFile, started, users, seqU>>

\* UPDATE reviews SET food_item_id = ?, rating = ?, comment = ?, image_path = ? WHERE id = ?
UpdateReviewRun(p) ==
    /\ req[p].op = "updateReview" /\ req[p].pc = "update"
    /\ LET id == RowId(req[p].id)
           row == [food_item_id |-> NumericAffinity(req[p].params.food_item_id),
                   rating |-> NumericAffinity(req[p].params.rating),
                   comment |-> TextAffinity(req[p].params.comment),
                   image_path |-> req[p].params.image_path]
       IN  IF id \notin DOMAIN reviews
           THEN /\ UNCHANGED reviews
                /\ Answer(p, req[p], 200)
           ELSE IF NotNull(row.food_item_id) /\ NotNull(row.rating) /\ RatingCheck(row.rating)
                   /\ ForeignKey(row.food_item_id, foodItems)
                THEN /\ reviews' = [reviews EXCEPT ![id] = row]
                     /\ Answer(p, req[p], 200)
                ELSE /\ UNCHANGED reviews
                     /\ Answer(p, req[p], 500)
    /\ UNCHANGED <<restaurants, foodItems, seqR, seqF, seqV, files, nextFile, started, users, seqU>>

\* ---- DELETE /reviews/:id
\* SELECT * FROM reviews WHERE id = ?, then the removal of its image.
DeleteReviewGet(p, auth, id, unlinkThrows) ==
    /\ Receive(p, FALSE)
    /\ UNCHANGED <<tables, nextFile>>
    /\ unlinkThrows =>
           /\ AuthenticateJWT(auth) = 0
           /\ DbGet(reviews, id) # NoRow
           /\ UnlinkImage(files, DbGet(reviews, id).image_path) # files
    /\ IF AuthenticateJWT(auth) # 0
       THEN /\ Answer(p, Request(auth, "deleteReview", id, NoBody, NoFile), AuthenticateJWT(auth))
            /\ UNCHANGED files
       ELSE LET review == DbGet(reviews, id)
            IN  IF review = NoRow
                THEN /\ UNCHANGED files
                     /\ Answer(p, Request(auth, "deleteReview", id, NoBody, NoFile), 404)
                ELSE IF unlinkThrows
                     THEN /\ UNCHANGED files
                          /\ Answer(p, Request(auth, "deleteReview", id, NoBody, NoFile), 500)
                     ELSE /\ files' = UnlinkImage(files, review.image_path)
                          /\ Await(p, [Request(auth, "deleteReview", id, NoBody, NoFile) EXCEPT !.pc = "delete"])

\* DELETE FROM reviews WHERE id = ?
DeleteReviewRun(p) ==
    /\ req[p].op = "deleteReview" /\ req[p].pc = "delete"
    /\ reviews' = Restrict(reviews, DOMAIN reviews \ {RowId(req[p].id)})
    /\ Answer(p, req[p], 200)
    /\ UNCHANGED <<restaurants, foodItems, seqR, seqF, seqV, files, nextFile, started, users, seqU>>

\* ---- GET /restaurants/:id, /food-items/:id, /reviews/:id : the status.
GetStatus(table, id) == IF DbGet(table, id) = NoRow THEN 404 ELSE 200

\* ---- GET /restaurants/:id (no gate): the row as JSON, or 404.
GetRestaurant(p, id) ==
    /\ Receive(p, FALSE)
    /\ UNCHANGED <<tables, files, nextFile>>
    /\ LET restaurant == DbGet(restaurants, id)
       IN  IF restaurant = NoRow
           THEN Answer(p, Request("none", "getRestaurant", id, NoBody, NoFile), 404)
           ELSE AnswerJson(p, Request("none", "getRestaurant", id, NoBody, NoFile), 200,
                           [id |-> RowId(id), name |-> restaurant.name,
                            location |-> restaurant.location])

\* ---- POST /register
\* bcrypt.hash(password, 10): a salted one-way hash of the string; it
\* rejects data that is not a string.
BcryptThrows(password) == password.t = "number"

\* A register that stores the password as it was sent.
BcryptHashPlain(password) == password

BcryptHash(password) == [t |-> "hash", of |-> password]

\* bcrypt.compare(password, hash)
BcryptCompare(password, hash) == hash = BcryptHash(password)

\* SELECT * FROM users WHERE username = ?
DbGetUser(table, username) ==
    IF \E u \in DOMAIN table : table[u].username = TextAffinity(username)
    THEN LET u == CHOOSE u \in DOMAIN table : table[u].username = TextAffinity(username)
         IN  [id |-> u, username |-> table[u].username, password |-> table[u].password]
    ELSE NoRow

\* username TEXT NOT NULL UNIQUE
Unique(username, table) == \A u \in DOMAIN table : table[u].username # username

\* the check of the body, SELECT * FROM users WHERE username = ?, then the
\* hash of the password.
RegisterGet(p, body) ==
    /\ Receive(p, FALSE)
    /\ seqU + Pending("register") < MaxUsers
    /\ UNCHANGED <<tables, files, nextFile>>
    /\ LET r == Request("none", "register", Undef, body, NoFile)
       IN  IF ~Truthy(body.username) \/ ~Truthy(body.password)
           THEN AnswerJson(p, r, 400, [error |-> "Username and password are required."])
           ELSE IF DbGetUser(users, body.username) # NoRow
                THEN AnswerJson(p, r, 409, [error |-> "Username already exists."])
                ELSE IF BcryptThrows(body.password)
                     THEN AnswerJson(p, r, 500, [error |-> "Something went wrong!"])
                     ELSE Await(p, [r EXCEPT !.pc = "insert",
                                             !.params = BcryptHash(body.password)])

\* INSERT INTO users (username, password) VALUES (?, ?)
RegisterInsert(p) ==
    /\ req[p].op = "register" /\ req[p].pc = "insert"
    /\ LET row == [username |-> TextAffinity(req[p].body.username),
                   password |-> req[p].params]
       IN  IF NotNull(row.username) /\ NotNull(row.password) /\ Unique(row.username, users)
           THEN /\ users' = (AutoIncrement(seqU, users) :> row) @@ users
                /\ seqU' = AutoIncrement(seqU, users)
                /\ AnswerJson(p, req[p], 201,
                              [message |-> "User registered successfully.",
                               user |-> [id |-> AutoIncrement(seqU, users), username |-> req[p].body.username]])
           ELSE /\ UNCHANGED <<users, seqU>>
                /\ AnswerJson(p, req[p], 500, [error |-> "Something went wrong!"])
    /\ UNCHANGED <<tables, files, nextFile, started>>

\* ---- POST /login
\* jwt.sign({ id, username }, JWT_SECRET, { expiresIn: '1h' })
JwtSign(user) == [t |-> "jwt", id |-> user.id, username |-> user.username]

\* A login that tells an unknown username from a wrong password.
UserNotFound == [status |-> 404, json |-> [error |-> "User not found."]]

\* if (!user) return res.status(401).json({ error: 'Invalid credentials.' })
UserAbsent == [status |-> 401, json |-> [error |-> "Invalid credentials."]]

\* if (!passwordMatch) return res.status(401).json({ error: 'Invalid credentials.' })
PasswordMismatch == [status |-> 401, json |-> [error |-> "Invalid credentials."]]

\* the check of the body, SELECT * FROM users WHERE username = ?, then the
\* comparison of the password with the stored hash.
Login(p, body) ==
    /\ Receive(p, FALSE)
    /\ UNCHANGED <<tables, files, nextFile>>
    /\ LET r == Request("none", "login", Undef, body, NoFile)
           user == DbGetUser(users, body.username)
       IN  IF ~Truthy(body.username) \/ ~Truthy(body.password)
           THEN AnswerJson(p, r, 400, [error |-> "Username and password are required."])
           ELSE IF user = NoRow
                THEN AnswerJson(p, r, UserAbsent.status, UserAbsent.json)
                ELSE IF BcryptThrows(body.password)
                     THEN AnswerJson(p, r, 500, [error |-> "Something went wrong!"])
                     ELSE IF ~BcryptCompare(body.password, user.password)
                          THEN AnswerJson(p, r, PasswordMismatch.status, PasswordMismatch.json)
                          ELSE AnswerJson(p, r, 200, [message |-> "Login successful.",
                                                      token |-> JwtSign(user)])

\* ------------------------------------------------------- request menus
\* Authorization header: absent, a token jwt.verify refuses, a valid token.
AuthFailures == {"none", "bad"}
IdParams == {Str(k) : k \in 1..MaxId}
SomeId == Str(1)

\* application/json bodies of the restaurant routes
RestaurantCreateBodies == {[NoBody EXCEPT !.name = n] : n \in {Undef, EmptyStr, Text(1)}}
RestaurantUpdateBodies == {[NoBody EXCEPT !.name = Text(2)]}

\* multipart/form-data bodies (every supplied field is a string)
FoodItemCreateBodies ==
    {[NoBody EXCEPT !.name = n, !.restaurant_id = r] :
        n \in {Undef, Text(1)}, r \in {Str(k) : k \in 1..MaxId}}
    \cup {[NoBody EXCEPT !.name = EmptyStr, !.restaurant_id = Str(1)],
          [NoBody EXCEPT !.name = Text(1)],
          [NoBody EXCEPT !.name = Text(1), !.restaurant_id = EmptyStr]}
FoodItemUpdateBodies ==
    {[NoBody EXCEPT !.restaurant_id = r] : r \in {Undef, Str(MaxId)}}
ReviewCreateBodies ==
    {[NoBody EXCEPT !.food_item_id = f, !.rating = r] :
        f \in {Undef} \cup {Str(k) : k \in 1..MaxId}, r \in {EmptyStr, Str(0), Str(3), Str(6)}}
    \cup {[NoBody EXCEPT !.food_item_id = Str(1)],
          [NoBody EXCEPT !.food_item_id = EmptyStr, !.rating = Str(3)]}
ReviewUpdateBodies ==
    {[NoBody EXCEPT !.food_item_id = f, !.rating = r] :
        f \in {Undef, Str(MaxId)}, r \in {Undef, EmptyStr, Str(0), Str(4)}}
\* application/json bodies of the review routes (no file can come with them)
ReviewCreateJsonBodies ==
    {[NoBody EXCEPT !.food_item_id = f, !.rating = r] :
        f \in {Num(k) : k \in 1..MaxId}, r \in {Num(0), Num(-1), Num(5), Num(6)}}
ReviewUpdateJsonBodies ==
    {[NoBody EXCEPT !.rating = r] : r \in {Num(0), Num(-1), Num(5)}}

Next ==
    \E p \in Proc :
        \/ \E b \in RestaurantCreateBodies : CreateRestaurant(p, "ok", b)
        \/ \E a \in AuthFailures : CreateRestaurant(p, a, NoBody)
        \/ \E i \in IdParams, b \in RestaurantUpdateBodies : UpdateRestaurantGet(p, "ok", i, b)
        \/ \E a \in AuthFailures : UpdateRestaurantGet(p, a, SomeId, NoBody)
        \/ UpdateRestaurantRun(p)
        \/ \E i \in IdParams : DeleteRestaurantGet(p, "ok", i)
        \/ \E a \in AuthFailures : DeleteRestaurantGet(p, a, SomeId)
        \/ DeleteRestaurantRun(p)
        \/ \E b \in FoodItemCreateBodies, h \in BOOLEAN : CreateFoodItemCheck(p, "ok", b, h)
        \/ \E a \in AuthFailures, h \in BOOLEAN : CreateFoodItemCheck(p, a, NoBody, h)
        \/ CreateFoodItemInsert(p)
        \/ \E i \in IdParams, b \in FoodItemUpdateBodies, h \in BOOLEAN : UpdateFoodItemGet(p, "ok", i, b, h)
        \/ \E a \in AuthFailures, h \in BOOLEAN : UpdateFoodItemGet(p, a, SomeId, NoBody, h)
        \/ UpdateFoodItemCheck(p)
        \/ UpdateFoodItemRun(p)
        \/ \E i \in IdParams : DeleteFoodItemGet(p, "ok", i, FALSE)
        \/ \E a \in AuthFailures : DeleteFoodItemGet(p, a, SomeId, FALSE)
        \/ DeleteFoodItemRun(p)
        \/ \E b \in ReviewCreateBodies, h \in BOOLEAN : CreateReviewCheck(p, "ok", b, h)
        \/ \E b \in ReviewCreateJsonBodies : CreateReviewCheck(p, "ok", b, FALSE)
        \/ \E a \in AuthFailures, h \in BOOLEAN : CreateReviewCheck(p, a, NoBody, h)
        \/ CreateReviewInsert(p)
        \/ \E i \in IdParams, b \in ReviewUpdateBodies, h \in BOOLEAN : UpdateReviewGet(p, "ok", i, b, h)
        \/ \E i \in IdParams, b \in ReviewUpdateJsonBodies : UpdateReviewGet(p, "ok", i, b, FALSE)
        \/ \E a \in AuthFailures, h \in BOOLEAN : UpdateReviewGet(p, a, SomeId, NoBody, h)
        \/ UpdateReviewCheck(p)
        \/ UpdateReviewRun(p)
        \/ \E i \in IdParams : DeleteReviewGet(p, "ok", i, FALSE)
        \/ \E a \in AuthFailures : DeleteReviewGet(p, a, SomeId, FALSE)
        \/ DeleteReviewRun(p)

Spec == Init /\ [][Next]_vars

\* application/json bodies of /register and /login
Usernames == {Text(1), Text(2)}
Passwords == {Text(1), Text(2)}
RegisterBodies ==
    {[NoBody EXCEPT !.username = u, !.password = w] :
        u \in Usernames \cup {EmptyStr}, w \in Passwords \cup {Undef, Num(1)}}
LoginBodies ==
    {[NoBody EXCEPT !.username = u, !.password = w] :
        u \in Usernames, w \in Passwords \cup {Undef, Num(1)}}

\* The unprotected routes alone.
NextUsers ==
    \E p \in Proc :
        \/ \E b \in RegisterBodies : RegisterGet(p, b)
        \/ RegisterInsert(p)
        \/ \E b \in LoginBodies : Login(p, b)

SpecUsers == Init /\ [][NextUsers]_vars

\* Every route, with one username on the unprotected ones.
OneUserBodies ==
    {[NoBody EXCEPT !.username = Text(1), !.password = w] : w \in {Undef, Text(1)}}

NextAll ==
    \/ Next
    \/ \E p \in Proc, b \in OneUserBodies : RegisterGet(p, b)
    \/ \E p \in Proc : RegisterInsert(p)
    \/ \E p \in Proc, b \in OneUserBodies : Login(p, b)

SpecAll == Init /\ [][NextAll]_vars

\* The create and update routes with bodies that supply one field each on
\* update (restaurant_id and food_item_id are never supplied, so no update
\* looks up a new parent).
FullRestaurant == [NoBody EXCEPT !.name = Text(1), !.location = Text(1)]
FullFoodItem ==
    [NoBody EXCEPT !.name = Text(1), !.description = Text(1), !.price = Str(5),
                   !.restaurant_id = Str(1)]
FullReview == [NoBody EXCEPT !.food_item_id = Str(1), !.rating = Str(3), !.comment = Text(1)]
RestaurantFieldBodies ==
    {[NoBody EXCEPT !.name = Text(2)], [NoBody EXCEPT !.location = Text(2)]}
FoodItemFieldBodies ==
    {[NoBody EXCEPT !.name = Text(2)], [NoBody EXCEPT !.description = Text(2)],
     [NoBody EXCEPT !.price = Str(0)]}
FoodItemJsonFieldBodies == {[NoBody EXCEPT !.price = Num(0)]}
ReviewFieldBodies ==
    {[NoBody EXCEPT !.rating = Str(4)], [NoBody EXCEPT !.comment = Text(2)]}

NextUpdate ==
    \E p \in Proc :
        \/ CreateRestaurant(p, "ok", FullRestaurant)
        \/ \E h \in BOOLEAN : CreateFoodItemCheck(p, "ok", FullFoodItem, h)
        \/ CreateFoodItemInsert(p)
        \/ \E h \in BOOLEAN : CreateReviewCheck(p, "ok", FullReview, h)
        \/ CreateReviewInsert(p)
        \/ \E i \in IdParams, b \in RestaurantFieldBodies : UpdateRestaurantGet(p, "ok", i, b)
        \/ UpdateRestaurantRun(p)
        \/ \E i \in IdParams, b \in FoodItemFieldBodies, h \in BOOLEAN :
               UpdateFoodItemGet(p, "ok", i, b, h)
        \/ \E i \in IdParams, b \in FoodItemJsonFieldBodies :
               UpdateFoodItemGet(p, "ok", i, b, FALSE)
        \/ UpdateFoodItemRun(p)
        \/ \E i \in IdParams, b \in ReviewFieldBodies, h \in BOOLEAN :
               UpdateReviewGet(p, "ok", i, b, h)
        \/ UpdateReviewRun(p)

SpecUpdate == Init /\ [][NextUpdate]_vars

\* Restaurants and food items created, read, updated and deleted, with
\* names and locations that are absent, empty or filled.
NamedRestaurantBodies ==
    {[NoBody EXCEPT !.name = n, !.location = l] :
        n \in {EmptyStr, Text(1)}, l \in {Undef, Text(1)}}
RenamedRestaurantBodies ==
    {[NoBody EXCEPT !.name = n, !.location = l] :
        n \in {EmptyStr, Text(2)}, l \in {Undef, Text(2)}}
NamedFoodItemBodies ==
    {[NoBody EXCEPT !.name = n, !.restaurant_id = Str(1)] : n \in {EmptyStr, Text(1)}}
RenamedFoodItemBodies == {[NoBody EXCEPT !.name = n] : n \in {EmptyStr, Text(2)}}

NextCrud ==
    \E p \in Proc :
        \/ \E b \in NamedRestaurantBodies : CreateRestaurant(p, "ok", b)
        \/ \E i \in IdParams : GetRestaurant(p, i)
        \/ \E i \in IdParams, b \in RenamedRestaurantBodies : UpdateRestaurantGet(p, "ok", i, b)
        \/ UpdateRestaurantRun(p)
        \/ \E i \in IdParams : DeleteRestaurantGet(p, "ok", i)
        \/ DeleteRestaurantRun(p)
        \/ \E b \in NamedFoodItemBodies : CreateFoodItemCheck(p, "ok", b, FALSE)
        \/ CreateFoodItemInsert(p)
        \/ \E i \in IdParams, b \in RenamedFoodItemBodies : UpdateFoodItemGet(p, "ok", i, b, FALSE)
        \/ UpdateFoodItemRun(p)

SpecCrud == Init /\ [][NextCrud]_vars

\* ---- upload.single('image') in front of the four multipart routes
\* limits: { fileSize: 5 * 1024 * 1024 }
FileSizeLimit == 5 * 1024 * 1024

\* The file part of a multipart request.  image: its Content-Type is an
\* image type; mime, ext: /jpeg|jpg|png|gif/ finds a match in its
\* Content-Type (image/png and video/jpeg do, image/webp does not), in the
\* lower-cased extension of its original name; size: its length in bytes.
FileParts ==
    [image : BOOLEAN, mime : BOOLEAN, ext : BOOLEAN, size : {FileSizeLimit, FileSizeLimit + 1}]

\* busboy stops a file that is longer than limits.fileSize.
TooLarge(part) == part.size > FileSizeLimit

\* A multipart request without a file part: multer calls next() and
\* req.file stays undefined.
NoPart == [image |-> FALSE, mime |-> FALSE, ext |-> FALSE, size |-> 0]

\* fileFilter: filetypes.test(file.mimetype) && filetypes.test(extname)
FileFilter(part) == part.mime /\ part.ext

\* upload.single('image') hands the request on, with req.file set when a
\* file part came.
UploadPasses(part) == part = NoPart \/ (FileFilter(part) /\ ~TooLarge(part))

\* multer ends with an error: Error('Only image files are allowed!') from
\* fileFilter before a filename is drawn, or MulterError LIMIT_FILE_SIZE
\* after the part of the file written under its new name was removed.  The
\* error middleware answers 400 and the route handler is not called.
UploadRefused(p, auth, op, id, body, part) ==
    /\ AuthenticateJWT(auth) = 0
    /\ ~UploadPasses(part)
    /\ Receive(p, FileFilter(part))
    /\ nextFile' = IF FileFilter(part) THEN nextFile + 1 ELSE nextFile
    /\ UNCHANGED <<tables, files>>
    /\ Answer(p, Request(auth, op, id, body, NoFile), 400)

PostFoodItem(p, auth, body, part) ==
    \/ UploadRefused(p, auth, "createFoodItem", Undef, body, part)
    \/ /\ AuthenticateJWT(auth) = 0 => UploadPasses(part)
       /\ CreateFoodItemCheck(p, auth, body, part # NoPart)

PutFoodItem(p, auth, id, body, part) ==
    \/ UploadRefused(p, auth, "updateFoodItem", id, body, part)
    \/ /\ AuthenticateJWT(auth) = 0 => UploadPasses(part)
       /\ UpdateFoodItemGet(p, auth, id, body, part # NoPart)

PostReview(p, auth, body, part) ==
    \/ UploadRefused(p, auth, "createReview", Undef, body, part)
    \/ /\ AuthenticateJWT(auth) = 0 => UploadPasses(part)
       /\ CreateReviewCheck(p, auth, body, part # NoPart)

PutReview(p, auth, id, body, part) ==
    \/ UploadRefused(p, auth, "updateReview", id, body, part)
    \/ /\ AuthenticateJWT(auth) = 0 => UploadPasses(part)
       /\ UpdateReviewGet(p, auth, id, body, part # NoPart)

\* The multipart routes with every kind of file part.
NextUpload ==
    \E p \in Proc :
        \/ CreateRestaurant(p, "ok", FullRestaurant)
        \/ \E part \in FileParts \cup {NoPart} : PostFoodItem(p, "ok", FullFoodItem, part)
        \/ CreateFoodItemInsert(p)
        \/ \E i \in IdParams, b \in FoodItemFieldBodies, part \in FileParts \cup {NoPart} :
               PutFoodItem(p, "ok", i, b, part)
        \/ UpdateFoodItemRun(p)
        \/ \E part \in FileParts \cup {NoPart} : PostReview(p, "ok", FullReview, part)
        \/ CreateReviewInsert(p)
        \/ \E i \in IdParams, b \in ReviewFieldBodies, part \in FileParts \cup {NoPart} :
               PutReview(p, "ok", i, b, part)
        \/ UpdateReviewRun(p)

SpecUpload == Init /\ [][NextUpload]_vars

\* ---- the filename callback of diskStorage
\* uniqueSuffix = Date.now() + '-' + Math.round(Math.random() * 1E9): within
\* one millisecond Math.random() can return what it returned for the upload
\* before, and the next file of the same extension is then given the same
\* filename again.
SuffixRepeats ==
    /\ nextFile > 0
    /\ nextFile' = nextFile - 1
    /\ UNCHANGED <<tables, files, req, resp, started, users, seqU>>

\* The create and update routes with a clock and a random number generator
\* that are not assumed to give every upload a new suffix.
NextNames ==
    \/ NextUpdate
    \/ SuffixRepeats

SpecNames == Init /\ [][NextNames]_vars

\* The requests of Next on a file system where the unlinkSync of a delete
\* handler can throw.
NextFs ==
    \/ Next
    \/ \E p \in Proc, i \in IdParams : DeleteFoodItemGet(p, "ok", i, TRUE)
    \/ \E p \in Proc, i \in IdParams : DeleteReviewGet(p, "ok", i, TRUE)

SpecFs == Init /\ [][NextFs]_vars


\* ================================================================ claims
\* No handler is between two of its statements.
Quiet == \A p \in Proc : req[p].pc = "idle"

\* The files the image_path of the rows ids of a table name.
ImagesOf(table, ids) ==
    {JoinImagePath(table[x].image_path) : x \in {y \in ids : Truthy(table[y].image_path)}}

\* The files some persisted FoodItem or Review references.
Referenced == ImagesOf(foodItems, DOMAIN foodItems) \cup ImagesOf(reviews, DOMAIN reviews)

\* C1: whenever no request is in flight, every file of the upload area is
\* referenced by the image_path of a persisted FoodItem or Review.
C1_NoOrphanedFiles == Quiet => files \subseteq Referenced

\* C2, at the states where no request is in flight (no delete is under
\* way, so the claim's one exception does not apply): every image_path of
\* a persisted FoodItem or Review names a file of the upload area.
C2_ImagePathsExist == Quiet => Referenced \subseteq files

\* C3: when DELETE /restaurants/:id or DELETE /food-items/:id has removed
\* its rows, the image files of every row the cascade removed are gone.
C3_CascadeReleasesImages ==
    [][\A p \in Proc :
          (DeleteRestaurantRun(p) \/ DeleteFoodItemRun(p)) =>
              /\ ImagesOf(foodItems, DOMAIN foodItems \ DOMAIN foodItems') \cap files' = {}
              /\ ImagesOf(reviews, DOMAIN reviews \ DOMAIN reviews') \cap files' = {}]_vars

\* C4: DELETE /restaurants/:id answers 200 and from then on GET of each of
\* its food items and of their reviews is 404, the rows of the other
\* restaurants are as they were, and a row that is gone never comes back.
C4_CascadeDelete ==
    [][/\ \A p \in Proc :
              DeleteRestaurantRun(p) =>
                  LET rid == RowId(req[p].id)
                      goneF == {f \in DOMAIN foodItems : foodItems[f].restaurant_id = Num(rid)}
                      goneV == {v \in DOMAIN reviews : reviews[v].food_item_id.n \in goneF}
                  IN  /\ resp'.status = 200
                      /\ \A f \in goneF : GetStatus(foodItems', Str(f)) = 404
                      /\ \A v \in goneV : GetStatus(reviews', Str(v)) = 404
                      /\ \A r \in DOMAIN restaurants \ {rid} :
                             r \in DOMAIN restaurants' /\ restaurants'[r] = restaurants[r]
                      /\ \A f \in DOMAIN foodItems \ goneF :
                             f \in DOMAIN foodItems' /\ foodItems'[f] = foodItems[f]
                      /\ \A v \in DOMAIN reviews \ goneV :
                             v \in DOMAIN reviews' /\ reviews'[v] = reviews[v]
       /\ \A f \in 1..seqF : GetStatus(foodItems, Str(f)) = 404 => GetStatus(foodItems', Str(f)) = 404
       /\ \A v \in 1..seqV : GetStatus(reviews, Str(v)) = 404 => GetStatus(reviews', Str(v)) = 404]_vars

\* The scenario of C4: restaurant 1, food item 1 and review 1 were created
\* and DELETE /restaurants/1 was the fourth request.
C4_Scenario ==
    /\ started = 4 /\ seqR = 1 /\ seqF = 1 /\ seqV = 1
    /\ resp.op = "deleteRestaurant" /\ resp.id = Str(1) /\ resp.status = 200
    /\ GetStatus(foodItems, Str(1)) = 404
    /\ GetStatus(reviews, Str(1)) = 404

\* C5: every persisted FoodItem's restaurant_id is the id of a persisted
\* Restaurant and every persisted Review's food_item_id is the id of a
\* persisted FoodItem.
C5_ReferentialIntegrity ==
    /\ \A f \in DOMAIN foodItems :
           foodItems[f].restaurant_id.t = "number" /\ foodItems[f].restaurant_id.n \in DOMAIN restaurants
    /\ \A v \in DOMAIN reviews :
           reviews[v].food_item_id.t = "number" /\ reviews[v].food_item_id.n \in DOMAIN foodItems

\* A create raced the delete of its parent: the existence check passed and
\* the INSERT was refused.
C5_RaceRefused ==
    /\ resp.op \in {"createFoodItem", "createReview"}
    /\ resp.status = 500


\* The request whose arrival at slot p a step is: the slot holds it, or it
\* was answered at once.
Arrived(p) == IF req'[p].pc = "idle" THEN resp' ELSE req'[p]

\* C6 as stated: a POST /food-items whose restaurant_id names no restaurant
\* is answered 404, inserts nothing and leaves no uploaded file.
C6_UnknownRestaurantAlways404 ==
    [][\A p \in Proc, h \in BOOLEAN :
          LET b == Arrived(p).body
          IN
          (/\ DbGet(restaurants, b.restaurant_id) = NoRow
           /\ CreateFoodItemCheck(p, "ok", b, h)) =>
              /\ req'[p].pc = "idle"
              /\ resp'.op = "createFoodItem" /\ resp'.status = 404
              /\ foodItems' = foodItems /\ seqF' = seqF
              /\ h => FilePath(StoredName(h)) \notin files']_vars

\* C6 amended: a POST /food-items with a non-empty name and a restaurant_id
\* (not empty, not 0) that names no restaurant when the handler looks it up
\* is answered 404, inserts nothing and leaves no uploaded file.
C6_UnknownRestaurant404 ==
    [][\A p \in Proc, h \in BOOLEAN :
          LET b == Arrived(p).body
          IN
          (/\ Truthy(b.name) /\ Truthy(b.restaurant_id)
           /\ DbGet(restaurants, b.restaurant_id) = NoRow
           /\ CreateFoodItemCheck(p, "ok", b, h)) =>
              /\ req'[p].pc = "idle"
              /\ resp'.op = "createFoodItem" /\ resp'.status = 404
              /\ foodItems' = foodItems /\ seqF' = seqF
              /\ h => FilePath(StoredName(h)) \notin files']_vars

\* A food item with a name and an image was refused for its restaurant_id.
C6_Refused ==
    /\ resp.op = "createFoodItem" /\ resp.status = 404
    /\ Truthy(resp.body.name)
    /\ resp.file # NoFile /\ FilePath(resp.file) \notin files
    /\ DbGet(restaurants, resp.body.restaurant_id) = NoRow

\* A rating that is a number outside 1..5.
Outside(rating) == rating.t \in {"number", "numstr"} /\ (rating.n < 1 \/ rating.n > 5)

\* C7: a POST /reviews whose rating is outside 1..5 is answered 400 and
\* inserts nothing, whatever its food_item_id is.
C7_RatingOutOfRangeRejected ==
    [][\A p \in Proc, h \in BOOLEAN :
          LET b == Arrived(p).body
          IN
          (/\ Outside(b.rating)
           /\ CreateReviewCheck(p, "ok", b, h)) =>
              /\ req'[p].pc = "idle"
              /\ resp'.op = "createReview" /\ resp'.status = 400
              /\ reviews' = reviews /\ seqV' = seqV]_vars

\* A review of an existing food item was refused for its rating.
C7_RefusedWithValidFoodItem ==
    /\ resp.op = "createReview" /\ resp.status = 400
    /\ Outside(resp.body.rating)
    /\ DbGet(foodItems, resp.body.food_item_id) # NoRow

\* C8: a PUT /reviews/:id on an existing review that supplies a rating
\* outside 1..5 (0 included) is answered 400, leaves the review as it was
\* and leaves no uploaded file.
C8_UpdateRatingRejected ==
    [][\A p \in Proc, h \in BOOLEAN :
          LET b == Arrived(p).body
              i == Arrived(p).id
          IN
          (/\ Outside(b.rating)
           /\ DbGet(reviews, i) # NoRow
           /\ UpdateReviewGet(p, "ok", i, b, h)) =>
              /\ req'[p].pc = "idle"
              /\ resp'.op = "updateReview" /\ resp'.status = 400
              /\ reviews' = reviews
              /\ h => FilePath(StoredName(h)) \notin files']_vars

\* C9: every persisted Review has a rating r with 1 <= r <= 5.
C9_RatingInRange ==
    \A v \in DOMAIN reviews :
        reviews[v].rating.t = "number" /\ reviews[v].rating.n >= 1 /\ reviews[v].rating.n <= 5

\* An update that supplied the rating 0 or "" got past the handler's range
\* check and was refused by the table; the review is still there.
C9_RefusedByTable ==
    /\ resp.op = "updateReview" /\ resp.status = 500
    /\ resp.body.rating \in {Num(0), EmptyStr}
    /\ DbGet(reviews, resp.id) # NoRow

\* C10: an update answered 200 that carried an image has removed the file
\* the record referenced before (and no other file), the record now
\* references the new file, and that file exists.
C10_UpdateReplacesImage ==
    [][\A p \in Proc :
          /\ ((UpdateFoodItemRun(p) \/ UpdateReviewRun(p))
                  /\ req[p].file # NoFile /\ resp'.status = 200) =>
                 LET id == RowId(req[p].id)
                     old == IF req[p].op = "updateFoodItem" THEN foodItems ELSE reviews
                     new == IF req[p].op = "updateFoodItem" THEN foodItems' ELSE reviews'
                 IN  /\ id \in DOMAIN new
                     /\ new[id].image_path = ImagePath(req[p].file)
                     /\ FilePath(req[p].file) \in files'
                     /\ id \in DOMAIN old => ImagesOf(old, {id}) \cap files' = {}
          /\ (req'[p].op \in {"updateFoodItem", "updateReview"}
                  /\ req'[p].pc = "update" /\ req[p].pc # "update") =>
                 LET id == RowId(req'[p].id)
                     old == IF req'[p].op = "updateFoodItem" THEN foodItems ELSE reviews
                 IN  files \ files' \subseteq ImagesOf(old, {id} \cap DOMAIN old)]_vars

\* The step sends a response: a request is answered on arrival, or a handler
\* that was awaiting a statement finishes.
Answers ==
    \/ started' = started + 1 /\ req' = req
    \/ \E p \in Proc : req[p].pc # "idle" /\ req'[p].pc = "idle"

\* C11: an update of a FoodItem or Review answered 400 or 404 has removed
\* the file uploaded with it and no other file (the record's stored image
\* is still there) and has left every table as it was; and an UPDATE that
\* carries a rating outside 1..5 changes neither the review nor a file.
C11_RejectedUpdateCleansUp ==
    [][/\ (Answers /\ resp'.op \in {"updateFoodItem", "updateReview"}
                   /\ resp'.status \in {400, 404}) =>
              LET table == IF resp'.op = "updateFoodItem" THEN foodItems ELSE reviews
                  id == RowId(resp'.id)
              IN  /\ UNCHANGED tables
                  /\ resp'.file # NoFile => FilePath(resp'.file) \notin files'
                  /\ files \ files' \subseteq {FilePath(resp'.file)}
                  /\ ImagesOf(table, {id} \cap DOMAIN table) \cap files \subseteq files'
       /\ \A p \in Proc :
              (UpdateReviewRun(p) /\ Outside(req[p].body.rating)) =>
                  reviews' = reviews /\ files' = files]_vars

\* An update of a review that has an image was refused, with its upload
\* gone and the stored image in place.
C11_RefusedKeepsOldImage ==
    /\ resp.op = "updateReview" /\ resp.status \in {400, 404}
    /\ resp.file # NoFile /\ FilePath(resp.file) \notin files
    /\ DbGet(reviews, resp.id) # NoRow
    /\ ImagesOf(reviews, {RowId(resp.id)}) # {}
    /\ ImagesOf(reviews, {RowId(resp.id)}) \subseteq files

\* C12: once DELETE /food-items/:id or DELETE /reviews/:id of an existing
\* record has been answered, the record is gone, also when the removal of
\* its image file failed.
C12_DeleteDespiteUnlinkFailure ==
    (resp.op \in {"deleteFoodItem", "deleteReview"} /\ resp.status \notin {401, 403, 404}) =>
        DbGet(IF resp.op = "deleteFoodItem" THEN foodItems ELSE reviews, resp.id) = NoRow

\* The statuses of a rejection.
Rejections == {400, 401, 403, 404, 409}

\* C13: a step that answers a request with 400, 401, 403, 404 or 409
\* leaves every User, Restaurant, FoodItem and Review record as it was, and
\* so does every step of a handler that does not end its request.
C13_RejectionLeavesStore ==
    [][(~Answers \/ resp'.status \in Rejections) =>
          UNCHANGED <<users, restaurants, foodItems, reviews>>]_vars

\* A food item was refused while a user and a restaurant are persisted.
C13_RefusedOnFilledStore ==
    /\ resp.op = "createFoodItem" /\ resp.status \in Rejections
    /\ users # <<>> /\ restaurants # <<>>

\* The create, update and delete routes of Restaurant, FoodItem and Review.
Protected ==
    {"createRestaurant", "updateRestaurant", "deleteRestaurant",
     "createFoodItem", "updateFoodItem", "deleteFoodItem",
     "createReview", "updateReview", "deleteReview"}

\* The step is the arrival of a request at slot p.
ArrivesAt(p) ==
    /\ req[p].pc = "idle" /\ started' = started + 1
    /\ req'[p].pc # "idle" \/ req' = req

\* C14: a request to a protected route without Authorization header is
\* answered 401 and one whose token fails verification 403, at once and
\* with every table and the upload area (multer's count of stored files
\* included) as they were.
C14_AuthGate ==
    [][\A p \in Proc :
          (ArrivesAt(p) /\ Arrived(p).op \in Protected /\ Arrived(p).auth # "ok") =>
              /\ req'[p].pc = "idle"
              /\ Arrived(p).auth = "none" => resp'.status = 401
              /\ Arrived(p).auth = "bad" => resp'.status = 403
              /\ UNCHANGED <<tables, users, files, nextFile>>]_vars

\* An update of an existing food item was refused for its token.
C14_BadTokenRefused ==
    /\ resp.op = "updateFoodItem" /\ resp.auth = "bad" /\ resp.status = 403
    /\ DbGet(foodItems, resp.id) # NoRow

\* C15: no two persisted users have the same username, and a register
\* call with both fields whose username is already persisted, when it
\* arrives or when its INSERT runs, is answered 409 and changes no user.
C15_UsernameUnique ==
    [][/\ \A u, v \in DOMAIN users' : users'[u].username = users'[v].username => u = v
       /\ \A p \in Proc :
              (/\ ArrivesAt(p) /\ Arrived(p).op = "register"
               /\ Truthy(Arrived(p).body.username) /\ Truthy(Arrived(p).body.password)
               /\ DbGetUser(users, Arrived(p).body.username) # NoRow) =>
                  req'[p].pc = "idle" /\ resp'.status = 409 /\ users' = users
       /\ \A p \in Proc :
              (RegisterInsert(p) /\ DbGetUser(users, req[p].body.username) # NoRow) =>
                  resp'.status = 409 /\ users' = users]_vars

C17_RegisterStoresHash ==
    [][\A p \in Proc :
          (RegisterInsert(p) /\ resp'.status = 201) =>
              /\ seqU' \in DOMAIN users'
              /\ users'[seqU'].password # req[p].body.password
              /\ users'[seqU'].password # TextAffinity(req[p].body.password)
              /\ BcryptCompare(req[p].body.password, users'[seqU'].password)
              /\ DOMAIN resp'.json = {"message", "user"}
              /\ resp'.json.user = [id |-> seqU', username |-> req[p].body.username]]_vars

\* A user was registered.
C17_Registered ==
    /\ resp.op = "register" /\ resp.status = 201
    /\ DbGetUser(users, resp.body.username) # NoRow
    /\ resp.json.user.id = DbGetUser(users, resp.body.username).id

\* A field that is absent or empty.
Missing(v) == v \in {Undef, EmptyStr}

\* C18: POST /restaurants without name, POST /food-items without name or
\* restaurant_id and POST /reviews without food_item_id or rating are
\* answered 400 at once, insert nothing and leave no uploaded file.
C18_RequiredFields ==
    [][\A p \in Proc, h \in BOOLEAN :
          LET b == Arrived(p).body
              refused == /\ req'[p].pc = "idle"
                         /\ resp'.status = 400
                         /\ UNCHANGED tables
                         /\ h => FilePath(StoredName(h)) \notin files'
              op == Arrived(p).op
          IN  ArrivesAt(p) =>
                  /\ (op = "createRestaurant" /\ Missing(b.name) /\ ~h
                          /\ CreateRestaurant(p, "ok", b)) => refused
                  /\ (op = "createFoodItem" /\ (Missing(b.name) \/ Missing(b.restaurant_id))
                          /\ CreateFoodItemCheck(p, "ok", b, h)) => refused
                  /\ (op = "createReview" /\ (Missing(b.food_item_id) \/ Missing(b.rating))
                          /\ CreateReviewCheck(p, "ok", b, h)) => refused]_vars

\* A food item without a name, sent with an image, was refused and its
\* upload is gone.
C18_RefusedWithUpload ==
    /\ resp.op = "createFoodItem" /\ resp.status = 400
    /\ Missing(resp.body.name)
    /\ resp.file # NoFile /\ FilePath(resp.file) \notin files

\* The fields of a body that the caller did not supply.
NotSupplied(body, fields) == {f \in fields : body[f] = Undef}

\* C19: an UPDATE of an existing Restaurant, FoodItem or Review answered
\* 200 leaves every field the request did not supply, and image_path when
\* the request carried no file, at the value the stored record had.
C19_PartialUpdate ==
    [][\A p \in Proc :
          LET id == RowId(req[p].id)
          IN  /\ (UpdateRestaurantRun(p) /\ id \in DOMAIN restaurants /\ resp'.status = 200) =>
                     \A f \in NotSupplied(req[p].body, {"name", "location"}) :
                         restaurants'[id][f] = restaurants[id][f]
              /\ (UpdateFoodItemRun(p) /\ id \in DOMAIN foodItems /\ resp'.status = 200) =>
                     /\ \A f \in NotSupplied(req[p].body,
                                              {"name", "description", "price", "restaurant_id"}) :
                            foodItems'[id][f] = foodItems[id][f]
                     /\ req[p].file = NoFile =>
                            foodItems'[id].image_path = foodItems[id].image_path
              /\ (UpdateReviewRun(p) /\ id \in DOMAIN reviews /\ resp'.status = 200) =>
                     /\ \A f \in NotSupplied(req[p].body, {"food_item_id", "rating", "comment"}) :
                            reviews'[id][f] = reviews[id][f]
                     /\ req[p].file = NoFile =>
                            reviews'[id].image_path = reviews[id].image_path]_vars

\* C20: an UPDATE of an existing FoodItem answered 200 stores the price 0
\* when the request supplied price 0 and leaves the stored price when the
\* request supplied no price.
C20_ZeroPriceStored ==
    [][\A p \in Proc :
          LET id == RowId(req[p].id)
          IN  (UpdateFoodItemRun(p) /\ id \in DOMAIN foodItems /\ resp'.status = 200) =>
                  /\ req[p].body.price \in {Num(0), Str(0)} => foodItems'[id].price = Num(0)
                  /\ req[p].body.price = Undef => foodItems'[id].price = foodItems[id].price]_vars

\* C21: every accepted POST /restaurants returns an id larger than every id
\* given before (so different from all of them, deletes or not) and stores
\* the name and location it was given; a stored restaurant changes or goes
\* only by an UPDATE or DELETE of its own id; a GET by id returns the
\* stored name and location.
C21_FreshIdAndRoundTrip ==
    [][/\ \A p \in Proc :
            (ArrivesAt(p) /\ Arrived(p).op = "createRestaurant" /\ resp'.status = 201)
            => LET id == resp'.json.id
                   b == resp'.body
               IN  /\ id > seqR
                   /\ id \notin DOMAIN restaurants
                   /\ \A r \in DOMAIN restaurants : restaurants'[r] = restaurants[r]
                   /\ DbGet(restaurants', Num(id)) =
                          [name |-> b.name,
                           location |-> IF b.location = Undef THEN Null ELSE b.location]
       /\ \A r \in DOMAIN restaurants :
            (r \notin DOMAIN restaurants' \/ restaurants'[r] # restaurants[r])
            => \E p \in Proc :
                  /\ req[p].op \in {"updateRestaurant", "deleteRestaurant"}
                  /\ req[p].pc # "idle" /\ req'[p].pc = "idle"
                  /\ RowId(req[p].id) = r
       /\ \A p \in Proc :
            (ArrivesAt(p) /\ Arrived(p).op = "getRestaurant" /\ resp'.status = 200)
            => /\ RowId(resp'.id) \in DOMAIN restaurants
               /\ resp'.json.name = restaurants[RowId(resp'.id)].name
               /\ resp'.json.location = restaurants[RowId(resp'.id)].location
               /\ restaurants' = restaurants]_vars

\* A restaurant created after the first one was deleted got a new id, and a
\* GET returned what it was created with.
C21_SecondIdAfterDelete ==
    /\ resp.op = "getRestaurant" /\ resp.status = 200
    /\ resp.json.id = 2 /\ resp.json.name = Text(1) /\ resp.json.location = Text(1)
    /\ DOMAIN restaurants = {2}

TableOf(op) ==
    CASE op \in {"updateRestaurant", "deleteRestaurant"} -> restaurants
      [] op \in {"updateFoodItem", "deleteFoodItem"} -> foodItems
      [] op \in {"updateReview", "deleteReview"} -> reviews
      [] OTHER -> <<>>

\* C22: an authenticated update or delete of a restaurant, food item or
\* review whose id is not in its table is answered 404 at once; no table
\* changes and the upload directory is as before, so the file that came
\* with the request is gone.
C22_AbsentTarget404 ==
    [][\A p \in Proc :
          (/\ ArrivesAt(p)
           /\ Arrived(p).auth = "ok"
           /\ Arrived(p).op \in {"updateRestaurant", "deleteRestaurant", "updateFoodItem",
                                 "deleteFoodItem", "updateReview", "deleteReview"}
           /\ RowId(Arrived(p).id) \notin DOMAIN TableOf(Arrived(p).op))
          => /\ req'[p].pc = "idle"
             /\ resp'.status = 404
             /\ UNCHANGED tables
             /\ files' = files
             /\ resp'.file # NoFile => FilePath(resp'.file) \notin files']_vars

\* An update of a review that is not there came with an image, was answered
\* 404 and its image is not in the upload directory.
C22_AbsentReviewUpload ==
    /\ resp.op = "updateReview" /\ resp.status = 404 /\ resp.auth = "ok"
    /\ resp.file # NoFile /\ FilePath(resp.file) \notin files
    /\ RowId(resp.id) \notin DOMAIN reviews
    /\ resp.body.food_item_id = Undef

\* C23: a multipart request whose file part is not of an image content
\* type, or is longer than 5 MiB, is answered 400 at once; no table changes
\* and the upload directory is as before.
C23_BadUploadRefused ==
    [][\A p \in Proc, part \in FileParts :
          (/\ ArrivesAt(p)
           /\ ~part.image \/ TooLarge(part)
           /\ \/ PostFoodItem(p, "ok", Arrived(p).body, part)
              \/ PutFoodItem(p, "ok", Arrived(p).id, Arrived(p).body, part)
              \/ PostReview(p, "ok", Arrived(p).body, part)
              \/ PutReview(p, "ok", Arrived(p).id, Arrived(p).body, part))
          => /\ req'[p].pc = "idle"
             /\ resp'.status = 400
             /\ UNCHANGED tables
             /\ files' = files]_vars

\* The image files that food items and reviews name, one entry per record.
ImageOwners ==
    {<<"food_item", f>> : f \in {x \in DOMAIN foodItems : Truthy(foodItems[x].image_path)}}
    \cup {<<"review", v>> : v \in {x \in DOMAIN reviews : Truthy(reviews[x].image_path)}}

ImageOf(owner) ==
    IF owner[1] = "food_item" THEN foodItems[owner[2]].image_path
    ELSE reviews[owner[2]].image_path

\* C24: no two stored food items or reviews name the same image file, and
\* no request in flight holds an uploaded file that a stored record names.
C24_FilenamesCollisionFree ==
    /\ \A a \in ImageOwners, b \in ImageOwners : a # b => ImageOf(a) # ImageOf(b)
    /\ \A p \in Proc : req[p].file # NoFile => FilePath(req[p].file) \notin Referenced

NonEmpty(v) == v # Undef /\ v # Null /\ v # EmptyStr

\* C25: in every reachable state every stored restaurant and every stored
\* food item has a name that is not empty, whatever creates and updates
\* (updates with an empty name among them) have run.
C25_NamesNonEmpty ==
    /\ \A r \in DOMAIN restaurants : NonEmpty(restaurants[r].name)
    /\ \A f \in DOMAIN foodItems : NonEmpty(foodItems[f].name)

\* An update of a food item with an empty name was answered 200.
C25_EmptyNameUpdateDone ==
    /\ resp.op = "updateFoodItem" /\ resp.status = 200
    /\ resp.body.name = EmptyStr
    /\ RowId(resp.id) \in DOMAIN foodItems

\* What a column keeps of a value written to it.
StoredAs(f, v) ==
    IF f \in {"price", "restaurant_id", "food_item_id", "rating"}
    THEN NumericAffinity(v) ELSE TextAffinity(v)

\* The fields both bodies supply.
SuppliedByBoth(a, b, fields) == {f \in fields : a[f] # Undef /\ b[f] # Undef}

\* C26: when an update of a restaurant or food item is answered 200 and the
\* response before it was the 200 of another update of the same record
\* that supplied other fields, the stored record carries the fields of
\* both requests.
C26_DisjointUpdatesBothApply ==
    [][\A p \in Proc :
          LET id == RowId(req[p].id)
              Both(table, fields) ==
                  \A f \in fields :
                      /\ resp.body[f] # Undef => table[id][f] = StoredAs(f, resp.body[f])
                      /\ req[p].body[f] # Undef => table[id][f] = StoredAs(f, req[p].body[f])
          IN  /\ (/\ resp.op = "updateRestaurant" /\ resp.status = 200 /\ RowId(resp.id) = id
                  /\ SuppliedByBoth(resp.body, req[p].body, {"name", "location"}) = {}
                  /\ UpdateRestaurantRun(p) /\ resp'.status = 200)
                 => id \in DOMAIN restaurants' /\ Both(restaurants', {"name", "location"})
              /\ (/\ resp.op = "updateFoodItem" /\ resp.status = 200 /\ RowId(resp.id) = id
                  /\ SuppliedByBoth(resp.body, req[p].body, {"name", "description", "price"}) = {}
                  /\ UpdateFoodItemRun(p) /\ resp'.status = 200)
                 => /\ id \in DOMAIN foodItems'
                    /\ Both(foodItems', {"name", "description", "price"})]_vars

\* C27: an update answered 200 ran its UPDATE on a record that was in the
\* table, and the record now holds the values the response returns; an
\* UPDATE that finds its record gone is not answered 200 and the file that
\* came with the request is not in the upload directory afterwards.
C27_SuccessMeansWritten ==
    [][\A p \in Proc :
          (UpdateRestaurantRun(p) \/ UpdateFoodItemRun(p) \/ UpdateReviewRun(p)) =>
              LET id == RowId(req[p].id)
                  old == CASE req[p].op = "updateRestaurant" -> restaurants
                           [] req[p].op = "updateFoodItem" -> foodItems
                           [] OTHER -> reviews
                  new == CASE req[p].op = "updateRestaurant" -> restaurants'
                           [] req[p].op = "updateFoodItem" -> foodItems'
                           [] OTHER -> reviews'
              IN  /\ resp'.status = 200 =>
                         /\ id \in DOMAIN old /\ id \in DOMAIN new
                         /\ \A f \in DOMAIN req[p].params :
                                new[id][f] = StoredAs(f, req[p].params[f])
                  /\ id \notin DOMAIN old =>
                         /\ resp'.status # 200
                         /\ req[p].file # NoFile => FilePath(req[p].file) \notin files']_vars

\* C28: the answer of the review routes is that of the first check that
\* fails.  POST /reviews: a missing field 400, else a rating outside 1..5
\* 400, else an unknown food item 404, else the INSERT is issued.
\* PUT /reviews/:id: an unknown review 404, else a rating outside 1..5 400,
\* else the handler goes on, and an unknown new food_item_id is then 404.
C28_FirstFailingCheck ==
    [][\A p \in Proc :
          LET b == Arrived(p).body
              i == Arrived(p).id
              answered(s) == req'[p].pc = "idle" /\ resp'.status = s
          IN  /\ (ArrivesAt(p) /\ Arrived(p).op = "createReview" /\ Arrived(p).auth = "ok") =>
                     IF Missing(b.food_item_id) \/ Missing(b.rating) THEN answered(400)
                     ELSE IF Outside(b.rating) THEN answered(400)
                     ELSE IF RowId(b.food_item_id) \notin DOMAIN foodItems THEN answered(404)
                     ELSE req'[p].pc = "insert"
              /\ (ArrivesAt(p) /\ Arrived(p).op = "updateReview" /\ Arrived(p).auth = "ok") =>
                     IF RowId(i) \notin DOMAIN reviews THEN answered(404)
                     ELSE IF Outside(b.rating) THEN answered(400)
                     ELSE req'[p].pc \in {"check", "update"}
              /\ (UpdateReviewCheck(p) /\ RowId(req[p].body.food_item_id) \notin DOMAIN foodItems) =>
                     answered(404)]_vars

====
